---- MODULE Spec2Model ----
(***************************************************************************)
(* A model of sto-cargo-search (src/src/sto_cargo_search/cli.py): the      *)
(* search-expression compiler and evaluator, the record classifier, the    *)
(* cache downloader and the control flow of main.                          *)
(*                                                                         *)
(* Python strings are sequences of one-character strings, so that lower(), *)
(* startswith(), `in`, str.replace and the regular-expression rewrites are *)
(* computed, not assumed.  A JSON object is the sequence of its            *)
(* <<key, value>> items in file order (a Python dict keeps that order).    *)
(***************************************************************************)
EXTENDS Integers, Sequences, FiniteSets, TLC

VARIABLES
    \* SearchTerm / BinaryOperation / NotOperation . evaluate
    ev_pc, ev_obj, ev_tree, ev_result,
    \* detect_format
    cl_pc, cl_obj, cl_result,
    \* parse_search_expression
    ps_pc, ps_expr, ps_result,
    \* CargoDownloader.download
    dl_pc, dl_force, dl_limit, dl_rows, dl_file, dl_before,
    dl_all_data, dl_offset, dl_log, dl_failed,
    \* main
    m_pc, m_args, m_file, m_cache, m_exit, m_error, m_inferred, m_search_tree,
    m_todo, m_stype, m_data, m_i, m_seen, all_matches

ev_vars == <<ev_pc, ev_obj, ev_tree, ev_result>>
cl_vars == <<cl_pc, cl_obj, cl_result>>
ps_vars == <<ps_pc, ps_expr, ps_result>>
dl_vars == <<dl_pc, dl_force, dl_limit, dl_rows, dl_file, dl_before,
             dl_all_data, dl_offset, dl_log, dl_failed>>
m_vars == <<m_pc, m_args, m_file, m_cache, m_exit, m_error, m_inferred,
            m_search_tree, m_todo, m_stype, m_data, m_i, m_seen, all_matches>>
vars == <<ev_vars, cl_vars, ps_vars, dl_vars, m_vars>>

----------------------------------------------------------------------------
(* Characters and strings *)

UpperChars == <<"A","B","C","D","E","F","G","H","I","J","K","L","M",
                "N","O","P","Q","R","S","T","U","V","W","X","Y","Z">>
LowerChars == <<"a","b","c","d","e","f","g","h","i","j","k","l","m",
                "n","o","p","q","r","s","t","u","v","w","x","y","z">>
DigitChars == <<"0","1","2","3","4","5","6","7","8","9">>

Range(s) == {s[i] : i \in DOMAIN s}

IsUpper(c) == c \in Range(UpperChars)
IsAlpha(c) == c \in Range(UpperChars) \cup Range(LowerChars)
IsDigit(c) == c \in Range(DigitChars)

\* str.lower() on one character
LowerChar(c) ==
    IF IsUpper(c)
    THEN LowerChars[CHOOSE i \in DOMAIN UpperChars : UpperChars[i] = c]
    ELSE c

\* str.lower()
Lower(s) == [i \in DOMAIN s |-> LowerChar(s[i])]

\* s.startswith(p, i)
StartsWithAt(s, p, i) ==
    /\ i + Len(p) <= Len(s)
    /\ SubSeq(s, i + 1, i + Len(p)) = p

\* s.startswith(p)
StartsWith(s, p) == StartsWithAt(s, p, 0)

\* needle in hay
Contains(hay, needle) ==
    \E i \in 0..Len(hay) : StartsWithAt(hay, needle, i)

----------------------------------------------------------------------------
(* JSON values: null, strings, booleans and numbers (one digit suffices) *)

None     == [t |-> "null", s |-> <<>>, n |-> 0]
StrV(s)  == [t |-> "str",  s |-> s,    n |-> 0]
BoolV(b) == [t |-> "bool", s |-> <<>>, n |-> IF b THEN 1 ELSE 0]
NumV(n)  == [t |-> "num",  s |-> <<>>, n |-> n]

\* str(value)
Str(v) ==
    CASE v.t = "str"  -> v.s
      [] v.t = "bool" -> IF v.n = 1 THEN <<"T","r","u","e">>
                                    ELSE <<"F","a","l","s","e">>
      [] v.t = "num"  -> <<DigitChars[v.n + 1]>>
      [] v.t = "null" -> <<"N","o","n","e">>

\* bool(value): None, "", False and 0 are falsy
Truthy(v) ==
    CASE v.t = "str"  -> v.s # <<>>
      [] v.t = "bool" -> v.n = 1
      [] v.t = "num"  -> v.n # 0
      [] v.t = "null" -> FALSE

\* a == b, and hash equality in a set: True == 1 and False == 0
PyEq(a, b) ==
    \/ a = b
    \/ /\ a.t \in {"bool", "num"}
       /\ b.t \in {"bool", "num"}
       /\ a.n = b.n

\* key in obj
HasKey(obj, k) == \E i \in DOMAIN obj : obj[i][1] = k

\* obj.get(k)
Get(obj, k) ==
    IF HasKey(obj, k)
    THEN obj[CHOOSE i \in DOMAIN obj : obj[i][1] = k][2]
    ELSE None

Keys(obj) == {obj[i][1] : i \in DOMAIN obj}

----------------------------------------------------------------------------
(* The expression tree: SearchTerm, BinaryOperation, NotOperation *)

Term(text)    == [op |-> "term", term |-> text, operands |-> <<>>]
NotOp(child)  == [op |-> "not",  term |-> <<>>, operands |-> <<child>>]
BinOp(o, ops) == [op |-> o,      term |-> <<>>, operands |-> ops]

\* SearchTerm.evaluate: the loop over obj.items() from item i on
RECURSIVE TermLoop(_, _, _)
TermLoopNoNullGuard(term, obj, i) ==
    IF i > Len(obj) THEN FALSE
    ELSE IF Contains(Lower(Str(obj[i][2])), Lower(term)) THEN TRUE
    ELSE TermLoop(term, obj, i + 1)

TermLoop(term, obj, i) ==
    IF i > Len(obj) THEN FALSE
    ELSE IF obj[i][2] # None /\ Contains(Lower(Str(obj[i][2])), Lower(term))
         THEN TRUE
    ELSE TermLoop(term, obj, i + 1)

SearchTerm_evaluate(node, obj) == TermLoop(node.term, obj, 1)

\* evaluate, dispatched on the node's class
RECURSIVE Evaluate(_, _)

\* BinaryOperation.evaluate: all(...) for 'and', any(...) for 'or'
BinaryOperation_evaluate(node, obj) ==
    IF node.op = "and"
    THEN \A i \in DOMAIN node.operands : Evaluate(node.operands[i], obj)
    ELSE \E i \in DOMAIN node.operands : Evaluate(node.operands[i], obj)

\* NotOperation.evaluate
NotOperation_evaluate(node, obj) == ~Evaluate(node.operands[1], obj)

Evaluate(node, obj) ==
    CASE node.op = "term" -> SearchTerm_evaluate(node, obj)
      [] node.op = "not"  -> NotOperation_evaluate(node, obj)
      [] OTHER            -> BinaryOperation_evaluate(node, obj)

----------------------------------------------------------------------------
(* parse_search_expression: the rewrites, then the infixNotation grammar *)

\* expr.replace(old, new) for a one-character old
RECURSIVE Replace(_, _, _)
Replace(s, old, new) ==
    IF s = <<>> THEN <<>>
    ELSE IF s[1] = old THEN new \o Replace(Tail(s), old, new)
    ELSE <<s[1]>> \o Replace(Tail(s), old, new)

\* \w of the regular expressions
IsWordChar(c) == IsAlpha(c) \/ IsDigit(c) \/ c = "_"

\* \b at offset p (between s[p] and s[p+1], 1-based characters)
WordBoundary(s, p) ==
    LET before == p >= 1 /\ p <= Len(s) /\ IsWordChar(s[p])
        after  == p + 1 >= 1 /\ p + 1 <= Len(s) /\ IsWordChar(s[p + 1])
    IN  before # after

\* a match of \bWORD\b, ignoring case, starting at offset p
KeywordAt(s, word, p) ==
    /\ p + Len(word) <= Len(s)
    /\ Lower(SubSeq(s, p + 1, p + Len(word))) = word
    /\ WordBoundary(s, p)
    /\ WordBoundary(s, p + Len(word))

\* re.sub(r'\bWORD\b', 'word', s, flags=re.IGNORECASE)
ReSubKeyword(s, word) ==
    [i \in DOMAIN s |->
        IF \E p \in 0..(i - 1) : p + Len(word) >= i /\ KeywordAt(s, word, p)
        THEN LowerChar(s[i])
        ELSE s[i]]

S_and == <<"a","n","d">>
S_or  == <<"o","r">>
S_not == <<"n","o","t">>
S_OR  == <<" ","O","R">>

\* lines 175-178
Preprocess(expr) ==
    ReSubKeyword(ReSubKeyword(ReSubKeyword(Replace(expr, ",", S_OR), S_and), S_or), S_not)

Whitespace == {" "}

\* pyparsing skips white space before every token
RECURSIVE SkipWs(_, _)
SkipWs(s, loc) ==
    IF loc < Len(s) /\ s[loc + 1] \in Whitespace THEN SkipWs(s, loc + 1) ELSE loc

\* the characters of Word(alphanums + '-_')
IsTermChar(c) == IsAlpha(c) \/ IsDigit(c) \/ c = "-" \/ c = "_"

RECURSIVE WordEnd(_, _)
WordEnd(s, loc) ==
    IF loc < Len(s) /\ IsTermChar(s[loc + 1]) THEN WordEnd(s, loc + 1) ELSE loc

RECURSIVE QuoteEnd(_, _)
\* the offset of the closing quote at or after loc, or -1
QuoteEnd(s, loc) ==
    IF loc >= Len(s) THEN -1
    ELSE IF s[loc + 1] = "\"" THEN loc
    ELSE QuoteEnd(s, loc + 1)

Fail == [ok |-> FALSE, tree |-> Term(<<>>), loc |-> 0, operands |-> <<>>]
Match(tree, loc) == [ok |-> TRUE, tree |-> tree, loc |-> loc, operands |-> <<>>]
Operands(acc, loc) == [ok |-> TRUE, tree |-> Term(<<>>), loc |-> loc, operands |-> acc]

\* Literal(lit) at loc: the offset after it, or -1.  A Literal matches a
\* prefix: no word boundary is required after it
LiteralAt(s, lit, loc) ==
    LET l == SkipWs(s, loc)
    IN  IF StartsWithAt(s, lit, l) THEN l + Len(lit) ELSE -1

\* term = QuotedString('"') | Word(alphanums + '-_'), with SearchTerm
ParseTerm(s, loc) ==
    LET l == SkipWs(s, loc)
        w == WordEnd(s, l)
        q == IF l < Len(s) /\ s[l + 1] = "\"" THEN QuoteEnd(s, l + 1) ELSE -1
    IN  IF q >= 0 THEN Match(Term(SubSeq(s, l + 2, q)), q + 1)
        ELSE IF w > l THEN Match(Term(SubSeq(s, l + 1, w)), w)
        ELSE Fail

\* The grammar infixNotation builds, one rule per level:
\*   atom     baseExpr | (lpar + ret + rpar)
\*   not      ('not', 1, opAssoc.RIGHT, NotOperation): 'not' thisExpr | atom
\*   and      ('and', 2, opAssoc.LEFT, BinaryOperation):
\*              lastExpr OneOrMore('and' lastExpr) | lastExpr
\*   or       ('or', 2, opAssoc.LEFT, BinaryOperation), likewise
\*   and_rest, or_rest   the OneOrMore, with the operands collected in acc
\* An alternative that fails gives the position back (ordered choice).
RECURSIVE Parse(_, _, _, _)
Parse(rule, s, loc, acc) ==
    CASE rule = "atom" ->
           LET t == ParseTerm(s, loc)
               l == LiteralAt(s, <<"(">>, loc)
               e == IF ~t.ok /\ l >= 0 THEN Parse("or", s, l, <<>>) ELSE Fail
               r == IF e.ok THEN LiteralAt(s, <<")">>, e.loc) ELSE -1
           IN  IF t.ok THEN t
               ELSE IF r >= 0 THEN Match(e.tree, r)
               ELSE Fail
      [] rule = "not" ->
           LET n == LiteralAt(s, <<"n","o","t">>, loc)
               e == IF n >= 0 THEN Parse("not", s, n, <<>>) ELSE Fail
           IN  IF e.ok THEN Match(NotOp(e.tree), e.loc)
               ELSE Parse("atom", s, loc, <<>>)
      [] rule = "and_rest" ->
           LET o == LiteralAt(s, <<"a","n","d">>, loc)
               e == IF o >= 0 THEN Parse("not", s, o, <<>>) ELSE Fail
           IN  IF e.ok THEN Parse("and_rest", s, e.loc, Append(acc, e.tree))
               ELSE Operands(acc, loc)
      [] rule = "and" ->
           LET first == Parse("not", s, loc, <<>>)
               rest  == IF first.ok
                        THEN Parse("and_rest", s, first.loc, <<first.tree>>)
                        ELSE Fail
           IN  IF ~first.ok THEN Fail
               ELSE IF Len(rest.operands) > 1
                    THEN Match(BinOp("and", rest.operands), rest.loc)
               ELSE first
      [] rule = "or_rest" ->
           LET o == LiteralAt(s, <<"o","r">>, loc)
               e == IF o >= 0 THEN Parse("and", s, o, <<>>) ELSE Fail
           IN  IF e.ok THEN Parse("or_rest", s, e.loc, Append(acc, e.tree))
               ELSE Operands(acc, loc)
      [] rule = "or" ->
           LET first == Parse("and", s, loc, <<>>)
               rest  == IF first.ok
                        THEN Parse("or_rest", s, first.loc, <<first.tree>>)
                        ELSE Fail
           IN  IF ~first.ok THEN Fail
               ELSE IF Len(rest.operands) > 1
                    THEN Match(BinOp("or", rest.operands), rest.loc)
               ELSE first

\* search_expr
ParseOr(s, loc) == Parse("or", s, loc, <<>>)

\* search_expr.parseString(expr, parseAll=True)[0]; ok = FALSE is the
\* ParseException, after which the function calls exit(1)
parse_search_expression(expr) ==
    LET s == Preprocess(expr)
        e == ParseOr(s, 0)
    IN  IF e.ok /\ SkipWs(s, e.loc) = Len(s)
        THEN [ok |-> TRUE, tree |-> e.tree]
        ELSE [ok |-> FALSE, tree |-> Term(<<>>)]

----------------------------------------------------------------------------
(* Inputs of the evaluator: records and expression trees *)

MaxOperands == 2

S_name == <<"n","a","m","e">>
S_mk   == <<"m","k">>
S_RARE == <<"R","A","R","E">>
S_none == <<"n","o","n","e">>
S_Rare == <<"R","a","r","e">>
S_PhaserMkXII == <<"P","h","a","s","e","r"," ","M","k"," ","X","I","I">>

EvKeys   == {S_name, S_mk}
EvValues == {None, StrV(S_PhaserMkXII), StrV(S_Rare), BoolV(TRUE)}
EvTerms  == {S_mk, S_RARE, S_none}

\* every object over EvKeys and EvValues: no key twice, any item order
EvRecords ==
    UNION {{o \in [1..n -> EvKeys \X EvValues] :
              \A i, j \in 1..n : i # j => o[i][1] # o[j][1]}
           : n \in 0..Cardinality(EvKeys)}

EvLeaves   == {Term(t) : t \in EvTerms}
EvLiterals == EvLeaves \cup {NotOp(l) : l \in EvLeaves}
EvClauses  ==
    EvLiterals \cup
    {BinOp(o, ops) : o \in {"and", "or"},
                     ops \in UNION {[1..n -> EvLiterals] : n \in 2..MaxOperands}}
EvTrees ==
    EvClauses \cup {NotOp(c) : c \in EvClauses} \cup
    {BinOp(o, <<c, l>>) : o \in {"and", "or"}, c \in EvClauses, l \in EvLeaves}

\* The reference semantics of a tree on a record: a term matches iff some
\* non-null field value, stringified, contains it case-insensitively
RECURSIVE RefMatches(_, _)
RefMatches(node, obj) ==
    CASE node.op = "term" ->
           \E i \in DOMAIN obj :
               /\ obj[i][2].t # "null"
               /\ Contains(Lower(Str(obj[i][2])), Lower(node.term))
      [] node.op = "not" -> ~RefMatches(node.operands[1], obj)
      [] node.op = "and" ->
           \A i \in DOMAIN node.operands : RefMatches(node.operands[i], obj)
      [] node.op = "or" ->
           \E i \in DOMAIN node.operands : RefMatches(node.operands[i], obj)

EvInit ==
    /\ ev_pc = "call"
    /\ ev_obj \in EvRecords
    /\ ev_tree \in EvTrees
    /\ ev_result = FALSE

\* search_tree.evaluate(obj)
EvCall ==
    /\ ev_pc = "call"
    /\ ev_result' = Evaluate(ev_tree, ev_obj)
    /\ ev_pc' = "returned"
    /\ UNCHANGED <<ev_obj, ev_tree>>

EvIdle == ev_pc = "idle" /\ ev_obj = <<>> /\ ev_tree = Term(<<>>) /\ ev_result = FALSE
ClIdle == cl_pc = "idle" /\ cl_obj = <<>> /\ cl_result = "unknown"
PsIdle == ps_pc = "idle" /\ ps_expr = <<>> /\ ps_result = [ok |-> FALSE, tree |-> Term(<<>>)]
DlIdle ==
    /\ dl_pc = "idle" /\ dl_force = FALSE /\ dl_limit = 1
    /\ dl_rows = 0 /\ dl_file = [exists |-> FALSE, age |-> 0, content |-> <<>>]
    /\ dl_before = dl_file /\ dl_all_data = <<>> /\ dl_offset = 0
    /\ dl_log = <<>> /\ dl_failed = FALSE
NoFile  == [state |-> "none", data |-> <<>>]
NoTree  == [set |-> FALSE, tree |-> Term(<<>>)]
NoArgs  == [search |-> [set |-> FALSE, text |-> <<>>], list_all |-> FALSE,
            force_download |-> FALSE, file |-> FALSE,
            search_type |-> [set |-> FALSE, list |-> <<>>]]
EmptyMatches ==
    [c \in {"equipment", "starship_trait", "doff", "personal_trait"} |-> <<>>]
MainIdle ==
    /\ m_pc = "idle" /\ m_args = NoArgs /\ m_file = NoFile
    /\ m_cache = [c \in {"equipment", "starship_trait", "doff", "personal_trait"} |-> NoFile]
    /\ m_exit = -1 /\ m_error = "" /\ m_inferred = "" /\ m_search_tree = NoTree
    /\ m_todo = {} /\ m_stype = "" /\ m_data = <<>> /\ m_i = 0 /\ m_seen = {}
    /\ all_matches = EmptyMatches

NextEval == EvCall /\ UNCHANGED <<cl_vars, ps_vars, dl_vars, m_vars>>

InitEval == EvInit /\ ClIdle /\ PsIdle /\ DlIdle /\ MainIdle

SpecEval == InitEval /\ [][NextEval]_vars

\* C2: evaluate agrees with the reference semantics on every record and tree,
\* a key is never searched, a null value never matches (not even 'none'),
\* and on a record whose values contain 'mk' and 'rare' the tree of
\* 'mk and rare' matches while that of 'mk and not rare' does not.
EvaluateMatchesReference ==
    ev_pc = "returned" =>
        /\ ev_result = RefMatches(ev_tree, ev_obj)
        /\ (ev_tree.op = "term" /\ \A i \in DOMAIN ev_obj : ev_obj[i][2] = None)
              => ~ev_result
        /\ (/\ ev_tree = BinOp("and", <<Term(S_mk), Term(S_RARE)>>)
            /\ \E i \in DOMAIN ev_obj : ev_obj[i][2] = StrV(S_PhaserMkXII)
            /\ \E i \in DOMAIN ev_obj : ev_obj[i][2] = StrV(S_Rare))
              => ev_result
        /\ (/\ ev_tree = BinOp("and", <<Term(S_mk), NotOp(Term(S_RARE))>>)
            /\ \E i \in DOMAIN ev_obj : ev_obj[i][2] = StrV(S_PhaserMkXII)
            /\ \E i \in DOMAIN ev_obj : ev_obj[i][2] = StrV(S_Rare))
              => ~ev_result

\* a null value and the term 'none': evaluated, and no match
EvaluateNullWitness ==
    /\ ev_pc = "returned"
    /\ ev_tree = Term(S_none)
    /\ ev_obj = <<<<S_name, None>>, <<S_mk, StrV(S_Rare)>>>>
    /\ ~ev_result

----------------------------------------------------------------------------
(* detect_format *)

S_doff_specialization ==
    <<"d","o","f","f","_","s","p","e","c","i","a","l","i","z","a","t","i","o","n">>
S_basic       == <<"b","a","s","i","c">>
S_detailed    == <<"d","e","t","a","i","l","e","d">>
S_obtained    == <<"o","b","t","a","i","n","e","d">>
S_chartype    == <<"c","h","a","r","t","y","p","e">>
S_environment == <<"e","n","v","i","r","o","n","m","e","n","t">>
S_head        == <<"h","e","a","d">>
S_text        == <<"t","e","x","t">>
S_subhead     == <<"s","u","b","h","e","a","d">>
S_head1       == <<"h","e","a","d","1">>
S_Head1       == <<"H","e","a","d","1">>
S_TEXT2       == <<"T","E","X","T","2">>
S_subhead3    == <<"s","u","b","h","e","a","d","3">>
S_pageName    == <<"_","p","a","g","e","N","a","m","e">>

detect_format(obj) ==
    IF HasKey(obj, S_doff_specialization) THEN "doff"
    ELSE IF HasKey(obj, S_basic) \/ HasKey(obj, S_detailed) \/ HasKey(obj, S_obtained)
         THEN "starship_trait"
    ELSE IF HasKey(obj, S_chartype) /\ HasKey(obj, S_environment)
         THEN "personal_trait"
    ELSE IF \E i \in DOMAIN obj :
               \/ StartsWith(obj[i][1], S_head)
               \/ StartsWith(obj[i][1], S_text)
               \/ StartsWith(obj[i][1], S_subhead)
         THEN "equipment"
    ELSE "unknown"

MaxFields == 3

ClKeys == {S_doff_specialization, S_basic, S_detailed, S_obtained, S_chartype,
           S_environment, S_head1, S_Head1, S_TEXT2, S_subhead3, S_name}

\* objects of at most MaxFields fields, in every order of their keys
ClRecords ==
    UNION {{[i \in 1..n |-> <<ks[i], None>>] :
              ks \in {f \in [1..n -> ClKeys] :
                        \A i, j \in 1..n : i # j => f[i] # f[j]}}
           : n \in 0..MaxFields}

ClInit ==
    /\ cl_pc = "call"
    /\ cl_obj \in ClRecords
    /\ cl_result = "unknown"

\* detect_format(obj)
ClCall ==
    /\ cl_pc = "call"
    /\ cl_result' = detect_format(cl_obj)
    /\ cl_pc' = "returned"
    /\ UNCHANGED cl_obj

NextClassify == ClCall /\ UNCHANGED <<ev_vars, ps_vars, dl_vars, m_vars>>

InitClassify == ClInit /\ EvIdle /\ PsIdle /\ DlIdle /\ MainIdle

SpecClassify == InitClassify /\ [][NextClassify]_vars

\* The classification rules as a function of the set of field names, with
\* the prefixes of rule 4 compared case-insensitively
RefClassify(names) ==
    IF S_doff_specialization \in names THEN "doff"
    ELSE IF names \cap {S_basic, S_detailed, S_obtained} # {} THEN "starship_trait"
    ELSE IF {S_chartype, S_environment} \subseteq names THEN "personal_trait"
    ELSE IF \E k \in names : \E p \in {S_head, S_subhead, S_text} :
               StartsWith(Lower(k), p)
         THEN "equipment"
    ELSE "unknown"

\* C3: detect_format depends only on the set of field names and returns the
\* first matching rule in the fixed priority order, the prefixes head, subhead
\* and text of rule 4 being compared case-insensitively.
ClassifyFirstRuleCaseInsensitive ==
    cl_pc = "returned" => cl_result = RefClassify(Keys(cl_obj))

\* The same rules with rule 4's prefixes compared as written (lower case):
\* what detect_format computes
RefClassifyCaseSensitive(names) ==
    IF S_doff_specialization \in names THEN "doff"
    ELSE IF names \cap {S_basic, S_detailed, S_obtained} # {} THEN "starship_trait"
    ELSE IF {S_chartype, S_environment} \subseteq names THEN "personal_trait"
    ELSE IF \E k \in names : \E p \in {S_head, S_subhead, S_text} : StartsWith(k, p)
         THEN "equipment"
    ELSE "unknown"

ClassifyFirstRuleAsWritten ==
    cl_pc = "returned" => cl_result = RefClassifyCaseSensitive(Keys(cl_obj))

----------------------------------------------------------------------------
(* Inputs of the compiler: every text of at most MaxExprLen characters *)

MaxExprLen == 4

PsAlphabet == {"m", "x", "-", ",", " ", "O", "R"}
PsTexts    == UNION {[1..n -> PsAlphabet] : n \in 0..MaxExprLen}

\* bare terms: letters, digits, hyphen, underscore
BareTerms ==
    UNION {[1..n -> {"m", "x", "-"}] : n \in 1..(MaxExprLen - 2)}

PsRecords == {<<>>, <<<<S_name, StrV(<<"m">>)>>>>, <<<<S_name, StrV(<<"x">>)>>>>,
              <<<<S_name, StrV(<<"-","x">>)>>>>, <<<<S_name, StrV(<<"m","x">>)>>>>}

PsInit ==
    /\ ps_pc = "call"
    /\ ps_expr \in PsTexts
    /\ ps_result = [ok |-> FALSE, tree |-> Term(<<>>)]

\* parse_search_expression(expr)
PsCall ==
    /\ ps_pc = "call"
    /\ ps_result' = parse_search_expression(ps_expr)
    /\ ps_pc' = "returned"
    /\ UNCHANGED ps_expr

NextParse == PsCall /\ UNCHANGED <<ev_vars, cl_vars, dl_vars, m_vars>>

InitParse == PsInit /\ EvIdle /\ ClIdle /\ DlIdle /\ MainIdle

SpecParse == InitParse /\ [][NextParse]_vars

\* C4: for all bare terms a and b the text 'a,b' compiles, and its predicate
\* evaluates on every record as the predicate compiled from 'a OR b'.
CommaExpansion ==
    ps_pc = "returned" =>
        \A a, b \in BareTerms :
            ps_expr = a \o <<",">> \o b =>
                /\ ps_result.ok
                /\ \A r \in PsRecords :
                      Evaluate(ps_result.tree, r) =
                      Evaluate(parse_search_expression(a \o <<" ","O","R"," ">> \o b).tree, r)

----------------------------------------------------------------------------
(* CargoDownloader.download for one cargo type *)

CACHE_EXPIRE_DAYS == 3

CargoTypes == {"equipment", "personal_trait", "starship_trait", "doff"}

\* CARGO_TYPES[cargo_type]['limit'] is 5000, 2500 or 1000; the model draws
\* the page size from 1..MaxLimit and the remote table's size from 0..MaxRows
MaxLimit   == 2
MaxRows    == 4
MaxAgeDays == 4

\* the remote table is rows 1..dl_rows; the page a request at offset returns
Page(offset, limit, rows) ==
    [i \in 1..(IF rows - offset >= limit THEN limit
               ELSE IF rows - offset > 0 THEN rows - offset ELSE 0) |-> offset + i]

\* is_cache_valid(path): the file exists and is younger than the expiry
is_cache_valid(file) ==
    IF ~file.exists THEN FALSE ELSE file.age < CACHE_EXPIRE_DAYS

\* line 105: the page is the last one
ShortPageNeverBreaks(batch, limit) == FALSE

ShortPage(batch, limit) == Len(batch) < limit

DlInit ==
    /\ dl_pc = "start"
    /\ dl_force \in BOOLEAN
    /\ dl_limit \in 1..MaxLimit
    /\ dl_rows \in 0..MaxRows
    /\ dl_file \in {[exists |-> FALSE, age |-> 0, content |-> <<>>]} \cup
                   [exists : {TRUE}, age : 0..MaxAgeDays, content : {<<>>, <<0>>}]
    /\ dl_before = dl_file
    /\ dl_all_data = <<>>
    /\ dl_offset = 0
    /\ dl_log = <<>>
    /\ dl_failed = FALSE

\* lines 85-87: the cache is valid and no download is forced
DlCacheHit ==
    /\ dl_pc = "start"
    /\ ~dl_force /\ is_cache_valid(dl_file)
    /\ dl_pc' = "done"
    /\ UNCHANGED <<dl_force, dl_limit, dl_rows, dl_file, dl_before,
                   dl_all_data, dl_offset, dl_log, dl_failed>>
    /\ UNCHANGED <<ev_vars, cl_vars, ps_vars, m_vars>>

\* lines 89-91
DlBegin ==
    /\ dl_pc = "start"
    /\ ~(~dl_force /\ is_cache_valid(dl_file))
    /\ dl_all_data' = <<>>
    /\ dl_offset' = 0
    /\ dl_pc' = "request"
    /\ UNCHANGED <<dl_force, dl_limit, dl_rows, dl_file, dl_before,
                   dl_log, dl_failed>>
    /\ UNCHANGED <<ev_vars, cl_vars, ps_vars, m_vars>>

\* lines 93-109, one iteration with response.ok
DlPageOk ==
    /\ dl_pc = "request"
    /\ LET batch == Page(dl_offset, dl_limit, dl_rows)
       IN  /\ dl_log' = Append(dl_log, [offset |-> dl_offset, ok |-> TRUE,
                                        size |-> Len(batch)])
           /\ IF batch = <<>>
              THEN /\ dl_pc' = "write"
                   /\ UNCHANGED <<dl_all_data, dl_offset>>
              ELSE /\ dl_all_data' = dl_all_data \o batch
                   /\ IF ShortPage(batch, dl_limit)
                      THEN dl_pc' = "write" /\ UNCHANGED dl_offset
                      ELSE dl_pc' = "request" /\ dl_offset' = dl_offset + dl_limit
    /\ UNCHANGED <<dl_force, dl_limit, dl_rows, dl_file, dl_before, dl_failed>>
    /\ UNCHANGED <<ev_vars, cl_vars, ps_vars, m_vars>>

\* lines 93-97, the iteration whose response is not ok
DlPageNotOk ==
    /\ dl_pc = "request"
    /\ dl_log' = Append(dl_log, [offset |-> dl_offset, ok |-> FALSE, size |-> 0])
    /\ dl_failed' = TRUE
    /\ dl_pc' = "write"
    /\ UNCHANGED <<dl_force, dl_limit, dl_rows, dl_file, dl_before,
                   dl_all_data, dl_offset>>
    /\ UNCHANGED <<ev_vars, cl_vars, ps_vars, m_vars>>

\* line 94: requests.get raises (no connection); the exception leaves download
DlRequestRaises ==
    /\ dl_pc = "request"
    /\ dl_log' = Append(dl_log, [offset |-> dl_offset, ok |-> FALSE, size |-> 0])
    /\ dl_pc' = "raised"
    /\ UNCHANGED <<dl_force, dl_limit, dl_rows, dl_file, dl_before,
                   dl_all_data, dl_offset, dl_failed>>
    /\ UNCHANGED <<ev_vars, cl_vars, ps_vars, m_vars>>

\* lines 111-112: whatever ended the loop, all_data is written to the file
DlWrite ==
    /\ dl_pc = "write"
    /\ dl_file' = [exists |-> TRUE, age |-> 0, content |-> dl_all_data]
    /\ dl_pc' = "done"
    /\ UNCHANGED <<dl_force, dl_limit, dl_rows, dl_before,
                   dl_all_data, dl_offset, dl_log, dl_failed>>
    /\ UNCHANGED <<ev_vars, cl_vars, ps_vars, m_vars>>

InitDownload == DlInit /\ EvIdle /\ ClIdle /\ PsIdle /\ MainIdle

NextDownload ==
    \/ DlCacheHit
    \/ DlBegin
    \/ DlPageOk
    \/ DlPageNotOk
    \/ DlRequestRaises
    \/ DlWrite

\* download runs to its end: nothing else is scheduled
SpecDownload == InitDownload /\ [][NextDownload]_vars /\ WF_vars(NextDownload)

\* C6: when a page's response is not ok, no cache file is written: the file
\* is left as it was before the attempt.
NoWriteAfterFailedPage ==
    (dl_pc = "done" /\ dl_failed) => dl_file = dl_before

\* C9: pages are requested at offsets 0, L, 2L, ...; every page before the
\* last requested one held exactly L records, so nothing is requested after a
\* short, empty or failed page; the number of requests is bounded by the
\* table's size; a valid cache without force_download requests nothing.
PaginationShape ==
    /\ \A i \in DOMAIN dl_log : dl_log[i].offset = (i - 1) * dl_limit
    /\ \A i \in DOMAIN dl_log :
           i < Len(dl_log) => dl_log[i].ok /\ dl_log[i].size = dl_limit
    /\ dl_pc \in {"write", "done"} /\ dl_log # <<>> =>
           \/ ~dl_log[Len(dl_log)].ok
           \/ dl_log[Len(dl_log)].size < dl_limit
    /\ dl_pc = "request" /\ dl_log # <<>> =>
           dl_log[Len(dl_log)].ok /\ dl_log[Len(dl_log)].size = dl_limit
    /\ Len(dl_log) <= (dl_rows \div dl_limit) + 1
    /\ (~dl_force /\ is_cache_valid(dl_before)) => dl_log = <<>>

\* C9: the pagination invariant, and with a finite remote table the loop ends
PaginationStopsAtShortPage ==
    /\ []PaginationShape
    /\ <>(dl_pc \in {"done", "raised"})

\* three full pages were fetched and the fourth, empty one ended the loop
PaginationWitness ==
    /\ dl_pc = "done"
    /\ Len(dl_log) = 3
    /\ dl_log[3].ok /\ dl_log[3].size = 0
    /\ Len(dl_all_data) = 2 * dl_limit

----------------------------------------------------------------------------
(* main: arguments, the explicit file or the cached categories, and the    *)
(* de-duplication loop                                                      *)

MaxRecords == 2

S_Foo  == <<"F","o","o">>
S_rare == <<"r","a","r","e">>

\* the records of the model's files
R_foo_plain == <<<<S_name, StrV(S_Foo)>>, <<S_head1, StrV(<<"x">>)>>>>
R_foo_rare  == <<<<S_name, StrV(S_Foo)>>, <<S_head1, StrV(S_Rare)>>>>
R_anon_rare == <<<<S_head1, StrV(S_Rare)>>>>
R_unknown   == <<<<S_name, StrV(S_Rare)>>>>
R_doff      == <<<<S_doff_specialization, StrV(S_Foo)>>, <<S_name, None>>>>
R_page      == <<<<S_name, StrV(<<>>)>>, <<S_pageName, StrV(S_Rare)>>,
                 <<S_chartype, NumV(1)>>, <<S_environment, BoolV(TRUE)>>>>

RecordPool == {R_foo_plain, R_foo_rare, R_anon_rare, R_unknown, R_doff, R_page}

Lists == UNION {[1..n -> RecordPool] : n \in 0..MaxRecords}

\* a file on disk: absent, not readable, not JSON, JSON but no list, a list
ListFiles     == {[state |-> "list", data |-> d] : d \in Lists}
BrokenFiles   == {[state |-> st, data |-> <<>>] : st \in {"badjson", "notlist"}}
ExplicitFiles ==
    {[state |-> st, data |-> <<>>] : st \in {"missing", "unreadable"}}
    \cup BrokenFiles \cup ListFiles

\* --search: absent, 'rare', or 'rare and' (which does not parse)
SearchArgs ==
    {[set |-> FALSE, text |-> <<>>],
     [set |-> TRUE,  text |-> S_rare],
     [set |-> TRUE,  text |-> S_rare \o <<" ">> \o S_and]}

\* --search-type after type=lambda s: s.split(','): absent, or a list
SearchTypeArgs ==
    {[set |-> FALSE, list |-> <<>>],
     [set |-> TRUE,  list |-> <<"equipment">>],
     [set |-> TRUE,  list |-> <<"doff">>],
     [set |-> TRUE,  list |-> <<"bogus">>]}

\* bool(args.search): None and '' are falsy
SearchGiven == m_args.search.set /\ m_args.search.text # <<>>

\* line 358: a list compared with a str; in Python they are never equal
ListNeStr(list, str) == TRUE

\* identifier = obj.get('name') or obj.get('doff_specialization')
\*              or obj.get('_pageName')
Identifier(obj) ==
    IF Truthy(Get(obj, S_name)) THEN Get(obj, S_name)
    ELSE IF Truthy(Get(obj, S_doff_specialization))
         THEN Get(obj, S_doff_specialization)
    ELSE Get(obj, S_pageName)

\* identifier not in seen
NotSeen(id, seen) == \A x \in seen : ~PyEq(x, id)

\* not search_tree or search_tree.evaluate(obj)
PassesFilter(tree, obj) == ~tree.set \/ Evaluate(tree.tree, obj)

\* lines 365-366 (384-385): the record is to be appended
ToAppendWithoutIdentity(obj, seen, tree) ==
    /\ ~Truthy(Identifier(obj)) \/ NotSeen(Identifier(obj), seen)
    /\ PassesFilter(tree, obj)

ToAppend(obj, seen, tree) ==
    /\ Truthy(Identifier(obj))
    /\ NotSeen(Identifier(obj), seen)
    /\ PassesFilter(tree, obj)

\* lines 361 and 380
\* parse_search_expression on each --search text of the model
Compiled == [a \in SearchArgs |-> parse_search_expression(a.text)]

SearchTree ==
    IF SearchGiven
    THEN [set |-> TRUE, tree |-> Compiled[m_args.search].tree]
    ELSE NoTree

ParseFails == SearchGiven /\ ~Compiled[m_args.search].ok

\* exit(code), return from main, or an uncaught exception (status 1)
Exit(code, error) ==
    /\ m_pc' = "exited"
    /\ m_exit' = code
    /\ m_error' = error

MainInit ==
    /\ m_pc = "start"
    /\ m_args \in [search : SearchArgs, list_all : BOOLEAN,
                   force_download : BOOLEAN, file : BOOLEAN,
                   search_type : SearchTypeArgs]
    /\ m_file \in IF m_args.file THEN ExplicitFiles ELSE {NoFile}
    /\ m_cache = [c \in CargoTypes |-> NoFile]
    /\ m_exit = -1 /\ m_error = "" /\ m_inferred = "" /\ m_search_tree = NoTree
    /\ m_todo = {} /\ m_stype = "" /\ m_data = <<>> /\ m_i = 0 /\ m_seen = {}
    /\ all_matches = EmptyMatches

Rest == UNCHANGED <<ev_vars, cl_vars, ps_vars, dl_vars>>

\* lines 307-310
MainConflict ==
    /\ m_pc = "start"
    /\ SearchGiven /\ m_args.list_all
    /\ Exit(1, "conflict")
    /\ UNCHANGED <<m_args, m_file, m_cache, m_inferred, m_search_tree, m_todo,
                   m_stype, m_data, m_i, m_seen, all_matches>>
    /\ Rest

\* lines 312-315
MainNothingToDo ==
    /\ m_pc = "start"
    /\ ~(SearchGiven /\ m_args.list_all)
    /\ ~(SearchGiven \/ m_args.list_all \/ m_args.force_download)
    /\ Exit(1, "nothing_to_do")
    /\ UNCHANGED <<m_args, m_file, m_cache, m_inferred, m_search_tree, m_todo,
                   m_stype, m_data, m_i, m_seen, all_matches>>
    /\ Rest

\* what download_all leaves in the cache directory: every file exists (it
\* was valid or has just been written); one of them may hold anything
\* (with force_download every file has just been written as a list)
CachesAfterDownload ==
    {[c \in CargoTypes |-> IF c = focus THEN f ELSE [state |-> "list", data |-> <<>>]] :
        focus \in CargoTypes,
        f \in IF m_args.force_download THEN ListFiles ELSE BrokenFiles \cup ListFiles}

\* lines 319-323: --force-download alone
MainForceOnly ==
    /\ m_pc = "start"
    /\ m_args.force_download /\ ~(SearchGiven \/ m_args.list_all)
    /\ \/ m_cache' \in CachesAfterDownload /\ Exit(0, "")
       \/ UNCHANGED m_cache /\ Exit(1, "ConnectionError")
    /\ UNCHANGED <<m_args, m_file, m_inferred, m_search_tree, m_todo,
                   m_stype, m_data, m_i, m_seen, all_matches>>
    /\ Rest

\* lines 325-326
MainDownloadAll ==
    /\ m_pc = "start"
    /\ ~(SearchGiven /\ m_args.list_all)
    /\ SearchGiven \/ m_args.list_all
    /\ \/ /\ m_cache' \in IF m_args.file
                          THEN {[c \in CargoTypes |-> [state |-> "list", data |-> <<>>]]}
                          ELSE CachesAfterDownload
          /\ m_pc' = "select"
          /\ UNCHANGED <<m_exit, m_error>>
       \/ UNCHANGED m_cache /\ Exit(1, "ConnectionError")
    /\ UNCHANGED <<m_args, m_file, m_inferred, m_search_tree, m_todo,
                   m_stype, m_data, m_i, m_seen, all_matches>>
    /\ Rest

\* lines 335-336
SelectedTypes ==
    IF m_args.search_type.set
    THEN Range(m_args.search_type.list) \cap CargoTypes
    ELSE CargoTypes

\* lines 338-341
MainNoValidTypes ==
    /\ m_pc = "select"
    /\ SelectedTypes = {}
    /\ Exit(1, "no_valid_types")
    /\ UNCHANGED <<m_args, m_file, m_cache, m_inferred, m_search_tree, m_todo,
                   m_stype, m_data, m_i, m_seen, all_matches>>
    /\ Rest

\* line 343
MainSelected ==
    /\ m_pc = "select"
    /\ SelectedTypes # {}
    /\ m_todo' = SelectedTypes
    /\ all_matches' = EmptyMatches
    /\ m_pc' = IF m_args.file THEN "file" ELSE "cache"
    /\ UNCHANGED <<m_args, m_file, m_cache, m_exit, m_error, m_inferred,
                   m_search_tree, m_stype, m_data, m_i, m_seen>>
    /\ Rest

\* lines 346-356: the explicit file cannot be used; main returns
MainFileRejected ==
    /\ m_pc = "file"
    /\ m_file.state \in {"missing", "badjson", "notlist"}
    /\ Exit(0, CASE m_file.state = "missing" -> "file_not_found"
                 [] m_file.state = "badjson" -> "json_error"
                 [] m_file.state = "notlist" -> "not_a_list")
    /\ UNCHANGED <<m_args, m_file, m_cache, m_inferred, m_search_tree, m_todo,
                   m_stype, m_data, m_i, m_seen, all_matches>>
    /\ Rest

\* line 350: open() raises PermissionError; line 357: data[0] of an empty
\* list raises IndexError.  Neither is caught
MainFileRaises ==
    /\ m_pc = "file"
    /\ \/ m_file.state = "unreadable" /\ Exit(1, "PermissionError")
       \/ m_file.state = "list" /\ m_file.data = <<>> /\ Exit(1, "IndexError")
    /\ UNCHANGED <<m_args, m_file, m_cache, m_inferred, m_search_tree, m_todo,
                   m_stype, m_data, m_i, m_seen, all_matches>>
    /\ Rest

\* lines 357-360
MainFileMismatch ==
    /\ m_pc = "file"
    /\ m_file.state = "list" /\ m_file.data # <<>>
    /\ m_args.search_type.set
    /\ ListNeStr(m_args.search_type.list, detect_format(m_file.data[1]))
    /\ m_inferred' = detect_format(m_file.data[1])
    /\ Exit(0, "type_mismatch")
    /\ UNCHANGED <<m_args, m_file, m_cache, m_search_tree, m_todo,
                   m_stype, m_data, m_i, m_seen, all_matches>>
    /\ Rest

FileTypeAccepted ==
    /\ m_file.state = "list" /\ m_file.data # <<>>
    /\ ~(/\ m_args.search_type.set
         /\ ListNeStr(m_args.search_type.list, detect_format(m_file.data[1])))

\* line 361, parse_search_expression calls exit(1)
MainFileParseError ==
    /\ m_pc = "file"
    /\ FileTypeAccepted
    /\ ParseFails
    /\ m_inferred' = detect_format(m_file.data[1])
    /\ Exit(1, "parse_error")
    /\ UNCHANGED <<m_args, m_file, m_cache, m_search_tree, m_todo,
                   m_stype, m_data, m_i, m_seen, all_matches>>
    /\ Rest

\* lines 357-362
MainFileLoopStart ==
    /\ m_pc = "file"
    /\ FileTypeAccepted
    /\ ~ParseFails
    /\ m_inferred' = detect_format(m_file.data[1])
    /\ m_search_tree' = SearchTree
    /\ m_data' = m_file.data
    /\ m_seen' = {}
    /\ m_i' = 1
    /\ m_pc' = "file_loop"
    /\ UNCHANGED <<m_args, m_file, m_cache, m_exit, m_error, m_todo, m_stype,
                   all_matches>>
    /\ Rest

\* lines 363-368, one record; all_matches has no 'unknown' key
MainFileLoopStep ==
    /\ m_pc = "file_loop"
    /\ m_i <= Len(m_data)
    /\ LET obj == m_data[m_i]
       IN  IF ToAppend(obj, m_seen, m_search_tree)
           THEN IF m_inferred \in DOMAIN all_matches
                THEN /\ all_matches' =
                          [all_matches EXCEPT ![m_inferred] = Append(@, obj)]
                     /\ m_seen' = m_seen \cup {Identifier(obj)}
                     /\ m_i' = m_i + 1
                     /\ UNCHANGED <<m_pc, m_exit, m_error>>
                ELSE /\ Exit(1, "KeyError")
                     /\ UNCHANGED <<all_matches, m_seen, m_i>>
           ELSE /\ m_i' = m_i + 1
                /\ UNCHANGED <<all_matches, m_seen, m_pc, m_exit, m_error>>
    /\ UNCHANGED <<m_args, m_file, m_cache, m_inferred, m_search_tree, m_todo,
                   m_stype, m_data>>
    /\ Rest

MainFileLoopEnd ==
    /\ m_pc = "file_loop"
    /\ m_i > Len(m_data)
    /\ m_pc' = "present"
    /\ UNCHANGED <<m_args, m_file, m_cache, m_exit, m_error, m_inferred,
                   m_search_tree, m_todo, m_stype, m_data, m_i, m_seen, all_matches>>
    /\ Rest

\* lines 370-379: the next category of the set; its file is skipped
MainCacheSkip ==
    /\ m_pc = "cache"
    /\ \E stype \in m_todo :
          /\ m_cache[stype].state \in {"missing", "badjson", "notlist"}
          /\ m_stype' = stype
          /\ m_todo' = m_todo \ {stype}
    /\ UNCHANGED <<m_pc, m_args, m_file, m_cache, m_exit, m_error, m_inferred,
                   m_search_tree, m_data, m_i, m_seen, all_matches>>
    /\ Rest

\* line 380, parse_search_expression calls exit(1)
MainCacheParseError ==
    /\ m_pc = "cache"
    /\ \E stype \in m_todo :
          /\ m_cache[stype].state = "list"
          /\ m_stype' = stype
    /\ ParseFails
    /\ Exit(1, "parse_error")
    /\ UNCHANGED <<m_args, m_file, m_cache, m_inferred, m_search_tree, m_todo,
                   m_data, m_i, m_seen, all_matches>>
    /\ Rest

\* lines 370-381
MainCacheLoopStart ==
    /\ m_pc = "cache"
    /\ ~ParseFails
    /\ \E stype \in m_todo :
          /\ m_cache[stype].state = "list"
          /\ m_stype' = stype
          /\ m_todo' = m_todo \ {stype}
          /\ m_data' = m_cache[stype].data
    /\ m_search_tree' = SearchTree
    /\ m_seen' = {}
    /\ m_i' = 1
    /\ m_pc' = "cache_loop"
    /\ UNCHANGED <<m_args, m_file, m_cache, m_exit, m_error, m_inferred, all_matches>>
    /\ Rest

\* lines 382-387, one record
MainCacheLoopStep ==
    /\ m_pc = "cache_loop"
    /\ m_i <= Len(m_data)
    /\ LET obj == m_data[m_i]
       IN  IF ToAppend(obj, m_seen, m_search_tree)
           THEN /\ all_matches' = [all_matches EXCEPT ![m_stype] = Append(@, obj)]
                /\ m_seen' = m_seen \cup {Identifier(obj)}
           ELSE UNCHANGED <<all_matches, m_seen>>
    /\ m_i' = m_i + 1
    /\ UNCHANGED <<m_pc, m_args, m_file, m_cache, m_exit, m_error, m_inferred,
                   m_search_tree, m_todo, m_stype, m_data>>
    /\ Rest

MainCacheLoopEnd ==
    /\ m_pc = "cache_loop"
    /\ m_i > Len(m_data)
    /\ m_pc' = "cache"
    /\ UNCHANGED <<m_args, m_file, m_cache, m_exit, m_error, m_inferred,
                   m_search_tree, m_todo, m_stype, m_data, m_i, m_seen, all_matches>>
    /\ Rest

\* the for loop over selected_types is exhausted
MainCacheDone ==
    /\ m_pc = "cache"
    /\ m_todo = {}
    /\ m_pc' = "present"
    /\ UNCHANGED <<m_args, m_file, m_cache, m_exit, m_error, m_inferred,
                   m_search_tree, m_todo, m_stype, m_data, m_i, m_seen, all_matches>>
    /\ Rest

\* lines 389-441: the matches are printed and main returns
MainPresent ==
    /\ m_pc = "present"
    /\ Exit(0, "")
    /\ UNCHANGED <<m_args, m_file, m_cache, m_inferred, m_search_tree, m_todo,
                   m_stype, m_data, m_i, m_seen, all_matches>>
    /\ Rest

Init == MainInit /\ EvIdle /\ ClIdle /\ PsIdle /\ DlIdle

Next ==
    \/ MainConflict
    \/ MainNothingToDo
    \/ MainForceOnly
    \/ MainDownloadAll
    \/ MainNoValidTypes
    \/ MainSelected
    \/ MainFileRejected
    \/ MainFileRaises
    \/ MainFileMismatch
    \/ MainFileParseError
    \/ MainFileLoopStart
    \/ MainFileLoopStep
    \/ MainFileLoopEnd
    \/ MainCacheSkip
    \/ MainCacheParseError
    \/ MainCacheLoopStart
    \/ MainCacheLoopStep
    \/ MainCacheLoopEnd
    \/ MainCacheDone
    \/ MainPresent

Spec == Init /\ [][Next]_vars

----------------------------------------------------------------------------
(* The de-duplication rule, stated on the whole source sequence *)

\* the records of data kept by the rule: in source order, a record is kept
\* iff its identity is non-empty, no record kept before it has the same
\* identity, and it passes the filter
RECURSIVE RefDedup(_, _)
RefDedup(data, tree) ==
    IF data = <<>> THEN <<>>
    ELSE LET kept == RefDedup(SubSeq(data, 1, Len(data) - 1), tree)
             obj  == data[Len(data)]
         IN  IF /\ Truthy(Identifier(obj))
                /\ \A j \in DOMAIN kept : ~PyEq(Identifier(kept[j]), Identifier(obj))
                /\ PassesFilter(tree, obj)
             THEN Append(kept, obj)
             ELSE kept

\* the result list of a category, empty for a category without one
Bucket(cat) == IF cat \in DOMAIN all_matches THEN all_matches[cat] ELSE <<>>

Identities(list) == {Identifier(list[j]) : j \in DOMAIN list}

DedupDuringLoops ==
    /\ m_pc = "file_loop" =>
          /\ Bucket(m_inferred) = RefDedup(SubSeq(m_data, 1, m_i - 1), m_search_tree)
          /\ m_seen = Identities(Bucket(m_inferred))
    /\ m_pc = "cache_loop" =>
          /\ all_matches[m_stype] = RefDedup(SubSeq(m_data, 1, m_i - 1), m_search_tree)
          /\ m_seen = Identities(all_matches[m_stype])
    /\ (m_pc \in {"cache", "present", "exited"} /\ ~m_args.file) =>
          \A c \in CargoTypes :
              (c \in SelectedTypes \ m_todo /\ m_cache[c].state = "list" /\ m_i >= 1)
                 => all_matches[c] = RefDedup(m_cache[c].data, SearchTree)

\* C1: in both loops a record is appended exactly when its identity is
\* non-empty, not among those appended so far, and the filter passes; seen
\* holds exactly the identities appended; so the result of every source
\* sequence is what the rule keeps of it, a later duplicate of a record
\* that failed the filter included.
DedupAppendsExactly ==
    /\ DedupDuringLoops
    /\ (m_pc \in {"present", "exited"} /\ m_args.file /\ m_i >= 1) =>
          Bucket(m_inferred) = RefDedup(m_data, m_search_tree)

\* The same rule holds of every run in which no append hits the missing
\* 'unknown' key of all_matches
DedupOnExistingBuckets ==
    /\ DedupDuringLoops
    /\ (m_pc \in {"present", "exited"} /\ m_args.file /\ m_i >= 1
        /\ m_error # "KeyError") =>
          Bucket(m_inferred) = RefDedup(m_data, m_search_tree)

\* the first record failed the filter, its later duplicate passed and is kept
DedupLaterDuplicateWitness ==
    /\ m_pc = "present"
    /\ m_data = <<R_foo_plain, R_foo_rare>>
    /\ m_search_tree.set
    /\ \E c \in CargoTypes : all_matches[c] = <<R_foo_rare>>

\* obj has none of the three identity fields, or only nulls in them
LacksIdentity(obj) ==
    \A k \in {S_name, S_doff_specialization, S_pageName} : Get(obj, k) = None

\* the category the running loop appends to
LoopCategory == IF m_pc = "file_loop" THEN m_inferred ELSE m_stype

\* C5 as stated: a record without identity fields is never de-duplicated
\* away: once processed, every such record that passes the filter is in the
\* result.
IdentitylessAlwaysKept ==
    m_pc \in {"file_loop", "cache_loop"} =>
        \A j \in 1..(m_i - 1) :
            (LacksIdentity(m_data[j]) /\ PassesFilter(m_search_tree, m_data[j]))
               => \E k \in DOMAIN Bucket(LoopCategory) :
                     Bucket(LoopCategory)[k] = m_data[j]

\* C5 as the code has it: a record without a non-empty identity is never
\* appended to any result, whether or not it passes the filter.
IdentitylessNeverKept ==
    \A c \in DOMAIN all_matches : \A j \in DOMAIN all_matches[c] :
        /\ ~LacksIdentity(all_matches[c][j])
        /\ Truthy(Identifier(all_matches[c][j]))

\* a record without identity that passes the filter was processed and dropped
IdentitylessDroppedWitness ==
    /\ m_pc = "cache_loop"
    /\ m_i = 2
    /\ m_data[1] = R_anon_rare
    /\ PassesFilter(m_search_tree, m_data[1])
    /\ all_matches[m_stype] = <<>>

\* the error conditions of the command line
ReportedErrors ==
    {"conflict", "nothing_to_do", "parse_error", "file_not_found",
     "PermissionError", "json_error", "not_a_list", "type_mismatch"}

\* C7: a run that hits conflicting flags, no action flag, an unparsable
\* expression, a missing, unreadable or malformed explicit file, or a
\* category mismatch ends with a non-zero exit status.
ErrorsExitNonZero ==
    (m_pc = "exited" /\ m_error \in ReportedErrors) => m_exit # 0

\* C8: an explicit file whose records classify as unknown does not fail the
\* run: the four known buckets stay empty and main completes normally.
UnknownFileCompletes ==
    (/\ m_args.file /\ m_inferred = "unknown"
     /\ m_error \notin {"parse_error", "type_mismatch"}) =>
        /\ \A c \in DOMAIN all_matches : all_matches[c] = <<>>
        /\ m_pc = "exited" => (m_exit = 0 /\ m_error = "")

\* C10: a --search-type that names exactly the category detected for the
\* explicit file is not reported as a mismatch.
NoMismatchWhenTypeAgrees ==
    m_error = "type_mismatch" => m_args.search_type.list # <<m_inferred>>

====
